---- MODULE Spec2Model ----
(***************************************************************************)
(* A model of the personal-library API: the JSON file store (src/store.js) *)
(* with its write queue and temp-file + rename flush, and the Express      *)
(* request handlers (src/server.js) with the Ajv validators                *)
(* (src/validators.js).                                                    *)
(*                                                                         *)
(* Abstractions.  A book is a function from field names to values; a field *)
(* the JavaScript object does not have is a name outside DOMAIN.  A title  *)
(* is the rank of the string in the JavaScript string order (0 is the      *)
(* empty string); a timestamp is the instant the ISO string denotes; an    *)
(* ISBN is the sequence of its characters; an id is a number (uuidv4 is a  *)
(* fresh one).  A file is [kind, books, ver]: ver is a ghost tag, the      *)
(* number of in-memory mutations the written text had seen.                *)
(***************************************************************************)
EXTENDS Integers, Sequences, FiniteSets, TLC

VARIABLES
    books,      \* this.state.books
    initPc,     \* where _init is: start, writing, written, ok, failed
    disk,       \* path -> file content, for this.filePath and this.tmpPath
    fl,         \* the promises of this._writeQueue, in _enqueueWrite order
    op,         \* per caller: the store call it is in
    clock,      \* the instant new Date() returns
    h,          \* per caller: the request handler it is in
    nextId,     \* the id the next uuidv4() returns
    ghost       \* history variables (not program state): seq counts the
                \* in-memory mutations, mv is the one this.state has seen last,
                \* acked the last one a caller was told succeeded, durable the
                \* texts that have been the whole live file, loaded the file
                \* _init read, startLog the promises whose _flush started, log
                \* the turns of the last importJson loop, prev the request a
                \* client made before its current one

vars == <<books, initPc, disk, fl, op, clock, h, nextId, ghost>>

----------------------------------------------------------------------------
\* Bounds of the model.

NumProcs == 2
MaxCalls == 3
MaxCrashes == 1
MaxFails == 1
MaxReqs == 2
MaxClock == 3

Procs == 1..NumProcs

----------------------------------------------------------------------------
\* Values.

Range(s) == {s[i] : i \in DOMAIN s}

Has(b, f) == f \in DOMAIN b

\* { ...a, ...b }
Spread(a, b) == b @@ a

\* a record of defaults with the fields given set: the fields win, name by name
WithFields(fields, defaults) ==
    IF DOMAIN fields = {} THEN defaults
    ELSE [k \in DOMAIN fields \cup DOMAIN defaults |->
             IF k \in DOMAIN fields THEN fields[k] ELSE defaults[k]]

NoBook == [f \in {} |-> 0]

Rec(id, title) == ("id" :> id) @@ ("title" :> title)

----------------------------------------------------------------------------
\* Files.

FilePath == "live"

TmpPathBug == FilePath

TmpPath == "tmp"

Absent == [kind |-> "absent", books |-> <<>>, ver |-> 0]

Partial == [kind |-> "partial", books |-> <<>>, ver |-> 0]

Garbage == [kind |-> "garbage", books |-> <<>>, ver |-> 0]

NoBooksDoc == [kind |-> "nobooks", books |-> <<>>, ver |-> 0]

\* JSON.stringify(this.state, null, 2)
Stringify(bs, v) == [kind |-> "doc", books |-> bs, ver |-> v]

\* JSON.parse throws on a text that is no JSON document
Parses(file) == file.kind \in {"doc", "nobooks"}

----------------------------------------------------------------------------
\* The file system calls of _flush and _init.

\* fsp.writeFile(this.tmpPath, ...) has opened and truncated the file
DiskWriteBegin(d) == [d EXCEPT ![TmpPath] = Partial]

\* fsp.writeFile(this.tmpPath, text) has written all of text
DiskWriteDone(d, text) == [d EXCEPT ![TmpPath] = text]

\* fsp.rename(this.tmpPath, this.filePath) fails when the source is missing
RenameFails(d) == d[TmpPath].kind = "absent"

DiskRename(d) ==
    IF TmpPath = FilePath THEN d
    ELSE [d EXCEPT ![FilePath] = d[TmpPath], ![TmpPath] = Absent]

----------------------------------------------------------------------------
\* The write queue: fl[t] is the promise the t-th _enqueueWrite call returned.

\* prior (ghost) is the state of the promise the new one was chained on
QueuedFlush == [st |-> "queued", text |-> Absent, prior |-> "none"]

\* this._writeQueue = this._writeQueue.then(() => this._flush())
Enqueue(f) ==
    Append(f, [QueuedFlush EXCEPT !.prior = IF f = <<>> THEN "ok" ELSE f[Len(f)].st])

ChainAllowsBug(f, t) == TRUE

\* this._writeQueue.then(() => this._flush()): the callback runs once the
\* promise before it is fulfilled (the first one is Promise.resolve())
ChainAllows(f, t) == IF t = 1 THEN TRUE ELSE f[t - 1].st = "ok"

\* a rejected promise rejects the one chained on it, without calling _flush
ChainRejects(f, t) == IF t = 1 THEN FALSE ELSE f[t - 1].st = "err"

Executing(f) == {t \in DOMAIN f : f[t].st \in {"writing", "written"}}

InitExecuting == initPc \in {"writing", "written"}

AwaitedBug(f, t) == TRUE

\* await this._enqueueWrite(): the caller goes on when its promise is settled
Awaited(f, t) == f[t].st \in {"ok", "err"}

----------------------------------------------------------------------------
\* Store calls.

IdleOp == [name |-> "none", pc |-> "idle", book |-> NoBook, id |-> 0,
           items |-> <<>>, ticket |-> 0, ver |-> 0, ret |-> "none",
           removed |-> FALSE, created |-> 0, updated |-> 0, found |-> NoBook,
           sort |-> "title", limit |-> 0, offset |-> 0, tag |-> "",
           total |-> 0, rows |-> <<>>, at |-> 0]

\* the calls that wait at "await this.ready"
AtReady == {p \in Procs : op[p].pc = "ready"}

\* the place of a new reaction on this.ready: behind those that wait there
NextAt ==
    IF AtReady = {} THEN 1
    ELSE 1 + (CHOOSE n \in {op[p].at : p \in AtReady} :
                 \A p \in AtReady : op[p].at <= n)

\* the call of a store method, up to its "await this.ready"
StartOp(name, args) ==
    WithFields(args, [IdleOp EXCEPT !.name = name, !.pc = "ready", !.at = NextAt])

IdleHandler == [pc |-> "idle", kind |-> "none", id |-> 0, body |-> NoBook,
                items |-> <<>>, now |-> 0, book |-> NoBook, status |-> 0,
                out |-> NoBook, existingId |-> 0, created |-> 0, updated |-> 0,
                pre |-> [books |-> <<>>, disk |-> <<>>, queued |-> 0]]

Max(a, b) == IF a >= b THEN a ELSE b

\* this.state.books.findIndex((b) => b.id === id), 0 when there is none
FindIndex(bs, id) ==
    IF \E i \in DOMAIN bs : bs[i]["id"] = id
    THEN CHOOSE i \in DOMAIN bs :
            /\ bs[i]["id"] = id
            /\ \A j \in 1..(i - 1) : bs[j]["id"] # id
    ELSE 0

\* upsert, lines 112-117
UpsertBooks(bs, book) ==
    LET idx == FindIndex(bs, book["id"]) IN
    IF idx > 0 THEN [bs EXCEPT ![idx] = book] ELSE Append(bs, book)

FilterOutBug(bs, id) ==
    IF \E i \in DOMAIN bs : bs[i]["id"] = id
    THEN SubSeq(bs, 1, Len(bs) - 1)
    ELSE bs

\* this.state.books.filter((b) => b.id !== id)
RECURSIVE FilterOut(_, _)
FilterOut(bs, id) ==
    IF bs = <<>> THEN <<>>
    ELSE IF Head(bs)["id"] = id THEN FilterOut(Tail(bs), id)
         ELSE <<Head(bs)>> \o FilterOut(Tail(bs), id)

RemoveEnqueuesBug(removed) == FALSE

\* if (removed) await this._enqueueWrite()
RemoveEnqueues(removed) == removed

----------------------------------------------------------------------------
\* importJson, lines 143-167.

\* String.prototype.toUpperCase, on the characters an ISBN is made of
UpperChar(c) == IF c = "x" THEN "X" ELSE c

\* s.replace(/-/g, '').toUpperCase()
RECURSIVE StripUpper(_)
StripUpper(s) ==
    IF s = <<>> THEN <<>>
    ELSE IF Head(s) = "-" THEN StripUpper(Tail(s))
         ELSE <<UpperChar(Head(s))>> \o StripUpper(Tail(s))

\* b.isbn13 || b.isbn10 || ''
RawIsbn(b) ==
    IF Has(b, "isbn13") /\ b["isbn13"] # <<>> THEN b["isbn13"]
    ELSE IF Has(b, "isbn10") /\ b["isbn10"] # <<>> THEN b["isbn10"]
         ELSE <<>>

\* const isbnKey = (b) => (b.isbn13 || b.isbn10 || '').replace(/-/g, '').toUpperCase()
isbnKey(b) == StripUpper(RawIsbn(b))

\* the largest index of bs whose record has the key k
LastWithKey(bs, k) ==
    CHOOSE i \in DOMAIN bs :
        /\ isbnKey(bs[i]) = k
        /\ \A j \in (i + 1)..Len(bs) : isbnKey(bs[j]) # k

\* new Map(this.state.books.map((b) => [isbnKey(b), b.id])): a later entry
\* replaces an earlier one with the same key
byIsbnOf(bs) ==
    [k \in {isbnKey(bs[i]) : i \in DOMAIN bs} |-> bs[LastWithKey(bs, k)]["id"]]

ImportMatchesBug(m, key) == FALSE

\* dedupeByIsbn && key && byIsbn.has(key), with dedupeByIsbn = true
ImportMatches(m, key) == key # <<>> /\ key \in DOMAIN m

\* Object.assign(existing, { ...incoming, id, updatedAt: new Date().toISOString() })
MergeInto(existing, incoming, id, now) ==
    Spread(existing, Spread(incoming, ("id" :> id) @@ ("updatedAt" :> now)))

\* one turn of the for loop, on st = [bs, m, created, updated, log]
ImportItem(st, incoming, now) ==
    LET key == isbnKey(incoming) IN
    IF ImportMatches(st.m, key)
    THEN LET id  == st.m[key]
             idx == FindIndex(st.bs, id)
             bs2 == [st.bs EXCEPT ![idx] = MergeInto(st.bs[idx], incoming, id, now)]
         IN [st EXCEPT !.bs = bs2,
                       !.updated = @ + 1,
                       !.log = Append(@, [pre |-> st.bs, item |-> incoming,
                                          post |-> bs2, idx |-> idx,
                                          created |-> 0, updated |-> 1])]
    ELSE LET bs2 == Append(st.bs, incoming) IN
         [st EXCEPT !.bs = bs2,
                    !.m = IF key # <<>> THEN (key :> incoming["id"]) @@ @ ELSE @,
                    !.created = @ + 1,
                    !.log = Append(@, [pre |-> st.bs, item |-> incoming,
                                       post |-> bs2, idx |-> 0,
                                       created |-> 1, updated |-> 0])]

RECURSIVE ImportLoop(_, _, _)
ImportLoop(st, array, now) ==
    IF array = <<>> THEN st
    ELSE ImportLoop(ImportItem(st, Head(array), now), Tail(array), now)

ImportBooks(bs, array, now) ==
    ImportLoop([bs |-> bs, m |-> byIsbnOf(bs), created |-> 0, updated |-> 0,
                log |-> <<>>], array, now)

----------------------------------------------------------------------------
\* _init, lines 18-33.  The constructor (lines 10-16) starts it.

InitRead ==
    /\ initPc = "start"
    /\ LET file == disk[FilePath] IN
       /\ ghost' = [ghost EXCEPT !.loaded = file,
                                 !.mv = IF Parses(file) THEN file.ver ELSE @]
       /\ IF file.kind = "absent"
          THEN \* ENOENT: await this._flush()
               /\ initPc' = "writing"
               /\ disk' = DiskWriteBegin(disk)
               /\ books' = books
          ELSE IF Parses(file)
          THEN \* this.state = JSON.parse(data); a missing books becomes []
               /\ initPc' = "ok"
               /\ books' = file.books
               /\ disk' = disk
          ELSE \* JSON.parse throws, and the error is no ENOENT
               /\ initPc' = "failed"
               /\ UNCHANGED <<books, disk>>
    /\ UNCHANGED <<fl, op, clock, h, nextId>>

InitWriteDone ==
    /\ initPc = "writing"
    /\ initPc' = "written"
    /\ disk' = DiskWriteDone(disk, Stringify(books, ghost.mv))
    /\ UNCHANGED <<books, fl, op, clock, ghost, h, nextId>>

InitRename ==
    /\ initPc = "written"
    /\ IF RenameFails(disk)
       THEN initPc' = "failed" /\ UNCHANGED <<disk, ghost>>
       ELSE /\ initPc' = "ok"
            /\ disk' = DiskRename(disk)
            /\ ghost' = [ghost EXCEPT !.durable = @ \cup {Stringify(books, ghost.mv)}]
    /\ UNCHANGED <<books, fl, op, clock, h, nextId>>

\* the disk fails the write or the rename: _flush throws, this.ready rejects
InitFlushFail ==
    /\ InitExecuting
    /\ ghost.fails < MaxFails
    /\ initPc' = "failed"
    /\ ghost' = [ghost EXCEPT !.fails = @ + 1]
    /\ UNCHANGED <<books, disk, fl, op, clock, h, nextId>>

----------------------------------------------------------------------------
\* _flush, lines 41-45, as the callback of the t-th promise of the chain.

StartFlush(t) ==
    /\ fl[t].st = "queued"
    /\ ChainAllows(fl, t)
    /\ fl' = [fl EXCEPT ![t].st = "writing", ![t].text = Stringify(books, ghost.mv)]
    /\ disk' = DiskWriteBegin(disk)
    /\ ghost' = [ghost EXCEPT !.startLog = Append(@, t)]
    /\ UNCHANGED <<books, initPc, op, clock, h, nextId>>

WriteDone(t) ==
    /\ fl[t].st = "writing"
    /\ fl' = [fl EXCEPT ![t].st = "written"]
    /\ disk' = DiskWriteDone(disk, fl[t].text)
    /\ UNCHANGED <<books, initPc, op, clock, ghost, h, nextId>>

Rename(t) ==
    /\ fl[t].st = "written"
    /\ IF RenameFails(disk)
       THEN /\ fl' = [fl EXCEPT ![t].st = "err"]
            /\ UNCHANGED <<disk, ghost>>
       ELSE /\ fl' = [fl EXCEPT ![t].st = "ok"]
            /\ disk' = DiskRename(disk)
            /\ ghost' = [ghost EXCEPT !.durable = @ \cup {fl[t].text}]
    /\ UNCHANGED <<books, initPc, op, clock, h, nextId>>

\* the disk fails the write or the rename of the flush in flight
FlushFail(t) ==
    /\ t \in Executing(fl)
    /\ ghost.fails < MaxFails
    /\ fl' = [fl EXCEPT ![t].st = "err"]
    /\ ghost' = [ghost EXCEPT !.fails = @ + 1]
    /\ UNCHANGED <<books, initPc, disk, op, clock, h, nextId>>

SkipFlush(t) ==
    /\ fl[t].st = "queued"
    /\ ChainRejects(fl, t)
    /\ fl' = [fl EXCEPT ![t].st = "err"]
    /\ UNCHANGED <<books, initPc, disk, op, clock, ghost, h, nextId>>

----------------------------------------------------------------------------
\* The bodies of the store's methods, each entered after "await this.ready".

\* await this.ready, when _init threw
ReadyRejected(p) ==
    /\ op[p].pc = "ready"
    /\ initPc = "failed"
    /\ op' = [op EXCEPT ![p].pc = "done", ![p].at = 0, ![p].ret = "err"]
    /\ UNCHANGED <<books, initPc, disk, fl, clock, ghost, h, nextId>>

\* upsert, lines 110-120
UpsertBody(p) ==
    /\ op[p].pc = "ready" /\ op[p].name = "upsert"
    /\ initPc = "ok"
    /\ books' = UpsertBooks(books, op[p].book)
    /\ fl' = Enqueue(fl)
    /\ ghost' = [ghost EXCEPT !.seq = @ + 1, !.mv = ghost.seq + 1]
    /\ op' = [op EXCEPT ![p].pc = "write", ![p].at = 0, ![p].ticket = Len(fl) + 1,
                        ![p].ver = ghost.seq + 1]
    /\ UNCHANGED <<initPc, disk, clock, h, nextId>>

\* remove, lines 122-129
RemoveBody(p) ==
    /\ op[p].pc = "ready" /\ op[p].name = "remove"
    /\ initPc = "ok"
    /\ LET after   == FilterOut(books, op[p].id)
           removed == Len(books) # Len(after)
       IN /\ books' = after
          /\ ghost' = IF removed
                      THEN [ghost EXCEPT !.seq = @ + 1, !.mv = ghost.seq + 1]
                      ELSE ghost
          /\ IF RemoveEnqueues(removed)
             THEN /\ fl' = Enqueue(fl)
                  /\ op' = [op EXCEPT ![p].pc = "write", ![p].at = 0, ![p].ticket = Len(fl) + 1,
                                      ![p].ver = ghost'.mv, ![p].removed = removed]
             ELSE /\ fl' = fl
                  /\ op' = [op EXCEPT ![p].pc = "done", ![p].at = 0, ![p].ret = "ok",
                                      ![p].ver = ghost'.mv, ![p].removed = removed]
    /\ UNCHANGED <<initPc, disk, clock, h, nextId>>

\* importJson, lines 143-167 (the handler passes an array)
ImportBody(p) ==
    /\ op[p].pc = "ready" /\ op[p].name = "importJson"
    /\ initPc = "ok"
    /\ LET r == ImportBooks(books, op[p].items, clock) IN
       /\ books' = r.bs
       /\ fl' = Enqueue(fl)
       /\ ghost' = [ghost EXCEPT !.seq = @ + 1, !.mv = ghost.seq + 1, !.log = r.log]
       /\ op' = [op EXCEPT ![p].pc = "write", ![p].at = 0, ![p].ticket = Len(fl) + 1,
                           ![p].ver = ghost.seq + 1,
                           ![p].created = r.created, ![p].updated = r.updated]
    /\ UNCHANGED <<initPc, disk, clock, h, nextId>>

RejectedBug(f, t) == FALSE

\* the awaited promise was rejected: await throws the error of _flush
Rejected(f, t) == f[t].st = "err"

\* the method returns, or throws what its promise was rejected with
OpReturn(p) ==
    /\ op[p].pc = "write"
    /\ Awaited(fl, op[p].ticket)
    /\ LET ok == ~Rejected(fl, op[p].ticket) IN
       /\ op' = [op EXCEPT ![p].pc = "done", ![p].ret = IF ok THEN "ok" ELSE "err"]
       /\ ghost' = IF ok THEN [ghost EXCEPT !.acked = Max(@, op[p].ver)] ELSE ghost
    /\ UNCHANGED <<books, initPc, disk, fl, clock, h, nextId>>

----------------------------------------------------------------------------
\* get and list, lines 49-108 (of the filters of list, the model has tag).

\* this.state.books.find((b) => b.id === id) || null
FindBook(bs, id) ==
    LET idx == FindIndex(bs, id) IN IF idx > 0 THEN bs[idx] ELSE NoBook

\* a[field] ?? '': the rank of the empty string is 0 among titles, and it is
\* below every timestamp
OrEmpty(b, field) ==
    IF Has(b, field) THEN b[field] ELSE IF field = "title" THEN 0 ELSE 0 - 1

\* compare(field, dir)(a, b) < 0
ComesBefore(a, b, field, dir) ==
    IF dir = "asc" THEN OrEmpty(a, field) < OrEmpty(b, field)
    ELSE OrEmpty(a, field) > OrEmpty(b, field)

\* sortMap[sort] || sortMap.title
SortField(sort) ==
    IF sort \in {"createdAt", "-createdAt"} THEN "createdAt"
    ELSE IF sort \in {"updatedAt", "-updatedAt"} THEN "updatedAt"
    ELSE "title"

SortDir(sort) ==
    IF sort \in {"-title", "-createdAt", "-updatedAt"} THEN "desc" ELSE "asc"

\* x put into the sorted rows before the first row it comes before
RECURSIVE InsertRow(_, _, _, _)
InsertRow(rows, x, field, dir) ==
    IF rows = <<>> THEN <<x>>
    ELSE IF ComesBefore(x, Head(rows), field, dir) THEN <<x>> \o rows
         ELSE <<Head(rows)>> \o InsertRow(Tail(rows), x, field, dir)

\* rows.sort(...): Array.prototype.sort is stable
RECURSIVE SortRows(_, _, _)
SortRows(rows, field, dir) ==
    IF rows = <<>> THEN <<>>
    ELSE InsertRow(SortRows(SubSeq(rows, 1, Len(rows) - 1), field, dir),
                   rows[Len(rows)], field, dir)

SliceBug(rows, offset, limit) ==
    SubSeq(rows, offset + 1,
           IF offset + limit + 1 < Len(rows) THEN offset + limit + 1 ELSE Len(rows))

\* rows.slice(offset, offset + limit)
Slice(rows, offset, limit) ==
    SubSeq(rows, offset + 1, IF offset + limit < Len(rows) THEN offset + limit ELSE Len(rows))

\* String.prototype.toLowerCase, on the tags of the model
LowerTag(x) == IF x = "A" THEN "a" ELSE IF x = "B" THEN "b" ELSE x

\* (b.tags || []).some((x) => x.toLowerCase() === t), t = tag.toLowerCase()
HasTag(b, tag) ==
    /\ Has(b, "tags")
    /\ \E i \in DOMAIN b["tags"] : LowerTag(b["tags"][i]) = LowerTag(tag)

\* if (tag && tag.trim()) rows = rows.filter(...): the rows with the tag, in
\* their order; all of them when the query has no tag
RECURSIVE FilterTag(_, _)
FilterTag(rows, tag) ==
    IF tag = "" \/ rows = <<>> THEN rows
    ELSE IF HasTag(Head(rows), tag)
         THEN <<Head(rows)>> \o FilterTag(Tail(rows), tag)
         ELSE FilterTag(Tail(rows), tag)

\* lines 98-102, on the filtered rows
ListRows(bs, sort, limit, offset) ==
    LET rows == SortRows(bs, SortField(sort), SortDir(sort)) IN
    [total |-> Len(rows), items |-> Slice(rows, offset, limit)]

ReadWaitsBug(f) == DOMAIN f

\* what get and list await besides this.ready: no promise of the write queue
ReadWaits(f) == {}

GetBody(p) ==
    /\ op[p].pc = "ready" /\ op[p].name = "get"
    /\ initPc = "ok"
    /\ \A t \in ReadWaits(fl) : Awaited(fl, t)
    /\ op' = [op EXCEPT ![p].pc = "done", ![p].at = 0, ![p].ret = "ok", ![p].ver = ghost.mv,
                        ![p].found = FindBook(books, op[p].id)]
    /\ UNCHANGED <<books, initPc, disk, fl, clock, ghost, h, nextId>>

ListBody(p) ==
    /\ op[p].pc = "ready" /\ op[p].name = "list"
    /\ initPc = "ok"
    /\ \A t \in ReadWaits(fl) : Awaited(fl, t)
    /\ LET r == ListRows(FilterTag(books, op[p].tag),
                          op[p].sort, op[p].limit, op[p].offset) IN
       op' = [op EXCEPT ![p].pc = "done", ![p].at = 0, ![p].ret = "ok", ![p].ver = ghost.mv,
                        ![p].total = r.total, ![p].rows = r.items]
    /\ UNCHANGED <<books, initPc, disk, fl, clock, ghost, h, nextId>>

----------------------------------------------------------------------------
\* The store under concurrent callers, disk failures and kills of the process.

I13a == <<"9","7","8","-","0","2","0","1","5","5","8","0","2","9">>

I13b == <<"9","7","8","0","2","0","1","5","5","8","0","2","9">>

WithIsbn13(b, i) == b @@ ("isbn13" :> i)

Stamped(b, c, u) == b @@ ("createdAt" :> c) @@ ("updatedAt" :> u)

\* what the backing file holds when the process first starts
SeedFiles ==
    {Absent, Garbage, NoBooksDoc,
     Stringify(<<Stamped(WithIsbn13(Rec(1, 1), I13a), 0, 0)>>, 0)}

\* the records and ids the callers pass
CallBooks == {Stamped(Rec(1, 2), 0, 0), Stamped(Rec(2, 1), 0, 0)}

CallIds == {1, 2}

CallSorts == {"title", "-updatedAt"}

\* store.list({ limit: 50000, offset: 0, sort: 'title' })
DupeScanLimit == 50000

CallArrays == {<<Stamped(WithIsbn13(Rec(2, 2), I13b), 0, 0)>>}

StartGhost(file) ==
    [seq |-> 0, mv |-> 0, acked |-> 0, durable |-> {file}, loaded |-> Absent,
     startLog |-> <<>>, log |-> <<>>, crashes |-> 0, fails |-> 0, calls |-> 0,
     reqs |-> 0, killed |-> FALSE,
     prev |-> [kind |-> "none", id |-> 0, status |-> 0]]

Init ==
    /\ books = <<>>
    /\ initPc = "start"
    /\ \E file \in SeedFiles :
        /\ disk = [p \in {FilePath, TmpPath} |-> IF p = FilePath THEN file ELSE Absent]
        /\ ghost = StartGhost(file)
    /\ fl = <<>>
    /\ op = [p \in Procs |-> IdleOp]
    /\ clock = 1
    /\ h = [p \in Procs |-> IdleHandler]
    /\ nextId = 3

\* a caller enters a method of the store and reaches "await this.ready"
Call(p, name, args) ==
    /\ op[p].pc \in {"idle", "done"}
    /\ ghost.calls < MaxCalls
    /\ op' = [op EXCEPT ![p] = StartOp(name, args)]
    /\ ghost' = [ghost EXCEPT !.calls = @ + 1]
    /\ UNCHANGED <<books, initPc, disk, fl, clock, h, nextId>>

CallUpsert(p) == \E b \in CallBooks : Call(p, "upsert", [book |-> b])

CallRemove(p) == \E id \in CallIds : Call(p, "remove", [id |-> id])

CallImport(p) == \E a \in CallArrays : Call(p, "importJson", [items |-> a])

CallGet(p) == \E id \in CallIds : Call(p, "get", [id |-> id])

CallList(p) ==
    \E sort \in CallSorts :
        Call(p, "list", [sort |-> sort, limit |-> DupeScanLimit, offset |-> 0])

\* the process is killed and started again: memory is lost, the files stay
Crash ==
    /\ ghost.crashes < MaxCrashes
    /\ books' = <<>>
    /\ initPc' = "start"
    /\ fl' = <<>>
    /\ op' = [p \in Procs |-> IdleOp]
    /\ ghost' = [ghost EXCEPT !.crashes = @ + 1, !.mv = 0, !.startLog = <<>>,
                              !.log = <<>>, !.loaded = Absent,
                              !.killed = (Executing(fl) # {} \/ InitExecuting)]
    /\ h' = [p \in Procs |-> IdleHandler]
    /\ UNCHANGED <<disk, clock, nextId>>

StoreStep ==
    \/ InitRead
    \/ InitWriteDone
    \/ InitRename
    \/ \E t \in DOMAIN fl : StartFlush(t)
    \/ \E t \in DOMAIN fl : WriteDone(t)
    \/ \E t \in DOMAIN fl : Rename(t)
    \/ \E p \in Procs : ReadyRejected(p)
    \/ \E p \in Procs : UpsertBody(p)
    \/ \E p \in Procs : RemoveBody(p)
    \/ \E p \in Procs : ImportBody(p)
    \/ \E p \in Procs : GetBody(p)
    \/ \E p \in Procs : ListBody(p)
    \/ \E p \in Procs : OpReturn(p)

Next ==
    \/ StoreStep
    \/ InitFlushFail
    \/ \E t \in DOMAIN fl : FlushFail(t)
    \/ \E t \in DOMAIN fl : SkipFlush(t)
    \/ \E p \in Procs : CallUpsert(p)
    \/ \E p \in Procs : CallRemove(p)
    \/ \E p \in Procs : CallImport(p)
    \/ \E p \in Procs : CallGet(p)
    \/ \E p \in Procs : CallList(p)
    \/ Crash

Spec == Init /\ [][Next]_vars

----------------------------------------------------------------------------
\* The store under callers that page through list while records are removed.

Tagged(b, tags) == b @@ ("tags" :> tags)

\* the collections the backing file holds: records with equal titles, with
\* tags in either case, and without tags
ListSeedFiles ==
    LET r1 == Tagged(Stamped(Rec(1, 2), 0, 3), <<"a">>)
        r2 == Tagged(Stamped(Rec(2, 1), 0, 1), <<"A", "b">>)
        r3 == Stamped(Rec(3, 2), 0, 2)
        r4 == Tagged(Stamped(Rec(4, 1), 0, 1), <<"b">>)
        r5 == Tagged(Stamped(Rec(5, 3), 0, 0), <<"B", "a">>)
    IN {Stringify(<<r1, r2, r3, r4, r5>>, 0), Stringify(<<r5, r4, r2>>, 0)}

PageTags == {"", "A", "b"}

PageSorts == {"title", "-updatedAt"}

PageSizes == {1, 2}

PageOffsets == {0, 1, 2, 4}

InitList ==
    /\ books = <<>>
    /\ initPc = "start"
    /\ \E file \in ListSeedFiles :
        /\ disk = [p \in {FilePath, TmpPath} |-> IF p = FilePath THEN file ELSE Absent]
        /\ ghost = StartGhost(file)
    /\ fl = <<>>
    /\ op = [p \in Procs |-> IdleOp]
    /\ clock = 1
    /\ h = [p \in Procs |-> IdleHandler]
    /\ nextId = 3

CallListPage(p) ==
    \E tag \in PageTags, sort \in PageSorts, limit \in PageSizes, offset \in PageOffsets :
        Call(p, "list", [tag |-> tag, sort |-> sort, limit |-> limit, offset |-> offset])

NextList ==
    \/ InitRead
    \/ \E p \in Procs : CallListPage(p)
    \/ \E p \in Procs : ListBody(p)
    \/ \E p \in Procs : CallRemove(p)
    \/ \E p \in Procs : RemoveBody(p)
    \/ \E t \in DOMAIN fl : StartFlush(t)
    \/ \E t \in DOMAIN fl : WriteDone(t)
    \/ \E t \in DOMAIN fl : Rename(t)
    \/ \E p \in Procs : OpReturn(p)

SpecList == InitList /\ [][NextList]_vars

----------------------------------------------------------------------------
\* The Ajv validators.  The model keeps these properties of bookSchema: id,
\* title, isbn10, isbn13, rating, createdAt and updatedAt; any other field
\* name of a body is a property the schema does not know.

SchemaFields == {"id", "title", "isbn10", "isbn13", "rating", "createdAt", "updatedAt"}

\* partialBookSchema: the same properties without id, createdAt, updatedAt
PatchFields == SchemaFields \ {"id", "createdAt", "updatedAt"}

IsbnMinLen == 10

RatingMin == 1

RatingMax == 5

Digits == {"0", "1", "2", "3", "4", "5", "6", "7", "8", "9"}

\* pattern '^[0-9Xx-]{10,}$'
Isbn10Ok(s) ==
    /\ Len(s) >= IsbnMinLen
    /\ \A i \in DOMAIN s : s[i] \in Digits \cup {"X", "x", "-"}

\* pattern '^(97(8|9))?[0-9-]{10,}$'
Isbn13Ok(s) ==
    LET tailOk(n) == /\ Len(s) - n >= IsbnMinLen
                     /\ \A i \in (n + 1)..Len(s) : s[i] \in Digits \cup {"-"}
    IN \/ tailOk(0)
       \/ /\ Len(s) >= 3
          /\ s[1] = "9" /\ s[2] = "7" /\ s[3] \in {"8", "9"}
          /\ tailOk(3)

\* the keywords of one property (a title is valid when it is not the empty
\* string; id and the timestamps are strings in the model)
FieldOk(f, v) ==
    IF f = "title" THEN v >= 1
    ELSE IF f = "rating" THEN v >= RatingMin /\ v <= RatingMax
    ELSE IF f = "isbn10" THEN Isbn10Ok(v)
    ELSE IF f = "isbn13" THEN Isbn13Ok(v)
    ELSE TRUE

\* removeAdditional: 'failing' with additionalProperties: false: a property
\* the schema does not name is deleted from the validated object
Strip(b, fields) == [f \in DOMAIN b \cap fields |-> b[f]]

PropsOkBug(data) == TRUE

PropsOk(data) == \A f \in DOMAIN data : FieldOk(f, data[f])

\* compile(bookSchema): [ok, data], data being the object after validation
validateNewBook(b) ==
    LET data == Strip(b, SchemaFields) IN
    [ok |-> Has(data, "title") /\ PropsOk(data), data |-> data]

\* compile(partialBookSchema)
validatePatchBook(b) ==
    LET data == Strip(b, PatchFields) IN
    [ok |-> PropsOk(data), data |-> data]

----------------------------------------------------------------------------
\* The request handlers of src/server.js.

SysFields(id, c, u) == ("id" :> id) @@ ("createdAt" :> c) @@ ("updatedAt" :> u)

PostIncomingBug(body, id, now) == Spread(SysFields(id, now, now), body)

\* { ...req.body, id: uuidv4(), createdAt: now, updatedAt: now }
PostIncoming(body, id, now) == Spread(body, SysFields(id, now, now))

\* (incoming.isbn13 || incoming.isbn10 || '').replace(/-/g, '').toUpperCase()
normalizedIsbn(b) == StripUpper(RawIsbn(b))

DupeIndexBug(rows, key) ==
    IF key # <<>> /\ \E i \in DOMAIN rows : RawIsbn(rows[i]) = key
    THEN CHOOSE i \in DOMAIN rows : RawIsbn(rows[i]) = key
    ELSE 0

\* all.items.find((b) => normalized ISBN of b === key): its index, or 0
DupeIndex(rows, key) ==
    IF key # <<>> /\ \E i \in DOMAIN rows : normalizedIsbn(rows[i]) = key
    THEN CHOOSE i \in DOMAIN rows :
            /\ normalizedIsbn(rows[i]) = key
            /\ \A j \in 1..(i - 1) : normalizedIsbn(rows[j]) # key
    ELSE 0

PutReplacementBug(body, existing, now) ==
    Spread(Spread(existing, body),
           ("id" :> existing["id"]) @@ ("updatedAt" :> now))

\* { ...req.body, id: existing.id, createdAt: existing.createdAt, updatedAt: now }
\* (a property set to undefined is no property of the stored JSON)
PutReplacement(body, existing, now) ==
    IF Has(existing, "createdAt")
    THEN Spread(body, SysFields(existing["id"], existing["createdAt"], now))
    ELSE Spread(Strip(body, DOMAIN body \ {"createdAt"}),
                ("id" :> existing["id"]) @@ ("updatedAt" :> now))

PatchMergedBug(existing, body, now) ==
    Spread(body, ("id" :> existing["id"]) @@ ("updatedAt" :> now))

\* { ...existing, ...req.body, id: existing.id, updatedAt: now }
PatchMerged(existing, body, now) ==
    Spread(Spread(existing, body), ("id" :> existing["id"]) @@ ("updatedAt" :> now))

\* { ...raw, id: raw.id || uuidv4(), createdAt: raw.createdAt || now, updatedAt: now }
ImportBook(raw, id, now) ==
    Spread(raw, SysFields(IF Has(raw, "id") THEN raw["id"] ELSE id,
                          IF Has(raw, "createdAt") THEN raw["createdAt"] ELSE now,
                          now))

\* the item null of a JSON array
JsonNull == "null" :> TRUE

\* the for loop of the import handler, lines 160-171, on
\* st = [ok, threw, incoming, nextId]: it stops at the first invalid item,
\* and raw.id throws a TypeError when the item is null
RECURSIVE ImportPrepare(_, _, _)
ImportPrepare(st, raws, now) ==
    IF raws = <<>> THEN st
    ELSE IF Head(raws) = JsonNull THEN [st EXCEPT !.ok = FALSE, !.threw = TRUE]
    ELSE LET raw  == Head(raws)
             v    == validateNewBook(ImportBook(raw, st.nextId, now))
             nid  == IF Has(raw, "id") THEN st.nextId ELSE st.nextId + 1
         IN IF v.ok
            THEN ImportPrepare([st EXCEPT !.incoming = Append(@, v.data),
                                          !.nextId = nid], Tail(raws), now)
            ELSE [st EXCEPT !.ok = FALSE, !.nextId = nid]

----------------------------------------------------------------------------
\* Properties of the store (checked under Spec).

Live == disk[FilePath]

\* C1: at most one _flush (that of _init included) is executing at any
\* moment, and the flushes of the queue start in the order of their
\* _enqueueWrite calls: the i-th flush to start is that of the i-th call.
OneFlushInOrder ==
    /\ Cardinality(Executing(fl)) + (IF InitExecuting THEN 1 ELSE 0) <= 1
    /\ \A i \in DOMAIN ghost.startLog : ghost.startLog[i] = i

\* two flushes have started while a third call's flush waits in the queue
OneFlushInOrderWitness ==
    /\ Len(ghost.startLog) >= 2
    /\ Executing(fl) # {}
    /\ \E t \in DOMAIN fl : fl[t].st = "queued"

\* C2: the live file is always a text that was the seed file or that a
\* flush wrote in full and renamed; after a kill during a flush, _init reads
\* such a text (or finds no file, when none was ever renamed), never a
\* partial one, whatever the temp file holds.
CrashSafe ==
    /\ Live \in ghost.durable
    /\ (ghost.killed /\ initPc # "start") =>
          /\ ghost.loaded \in ghost.durable
          /\ ghost.loaded.kind \in {"doc", "nobooks", "absent"}

\* killed in a flush that left a truncated temp file; the restart loaded the
\* document of an earlier flush, and a later mutation is lost
CrashSafeWitness ==
    /\ ghost.killed
    /\ initPc = "ok"
    /\ disk[TmpPath].kind = "partial"
    /\ ghost.loaded.kind = "doc"
    /\ ghost.loaded.ver > 0
    /\ ghost.seq > ghost.loaded.ver
    /\ books = ghost.loaded.books

\* C3: when upsert has returned, the flush of its own _enqueueWrite call,
\* which started after the record was placed, has renamed its text; the live
\* file holds a state of the collection no older than the upsert (and holds
\* the record itself when no later mutation was written), now and after any
\* kill and restart.
AckedDurable ==
    /\ ghost.acked <= Live.ver
    /\ \A p \in Procs :
         (op[p].name = "upsert" /\ op[p].pc = "done" /\ op[p].ret = "ok") =>
            /\ fl[op[p].ticket].st = "ok"
            /\ fl[op[p].ticket].text.ver >= op[p].ver
            /\ Live.ver >= op[p].ver
            /\ Live.ver = op[p].ver => op[p].book \in Range(Live.books)

\* an upsert has returned, its record is in the file, and a later mutation
\* is in memory only
AckedDurableWitness ==
    \E p \in Procs :
        /\ op[p].name = "upsert" /\ op[p].pc = "done" /\ op[p].ret = "ok"
        /\ Live.ver = op[p].ver
        /\ ghost.seq > op[p].ver
        /\ books # Live.books

Quiescent ==
    /\ initPc = "ok"
    /\ \A t \in DOMAIN fl : fl[t].st = "ok"
    /\ \A p \in Procs : op[p].pc \in {"idle", "done"}

\* C4: with no flush failed, once every queued flush has completed and no
\* call is pending, the collection in the live file is the in-memory one.
NoLostUpdate == Quiescent => Live.books = books

\* two callers' mutations, a remove among them, all flushed
NoLostUpdateWitness ==
    /\ Quiescent
    /\ Len(fl) >= 2
    /\ \E p, q \in Procs :
        /\ p # q
        /\ op[p].name = "remove" /\ op[p].removed /\ op[p].ticket > 0
        /\ op[q].name = "upsert" /\ op[q].ticket > 0

----------------------------------------------------------------------------
\* The handlers as processes: each action runs a handler from one await to
\* the next; h[p].pc is "await" while the handler waits for a store method.

\* the stored collection: the one in memory, or the one _init is about to load
StoredBooks ==
    IF initPc = "start" /\ Parses(disk[FilePath]) THEN disk[FilePath].books ELSE books

Snapshot == [books |-> StoredBooks, disk |-> disk, queued |-> Len(fl)]

Receives(p) ==
    /\ h[p].pc \in {"idle", "sent"}
    /\ ghost.reqs < MaxReqs

Request(kind, args) ==
    WithFields(args, [IdleHandler EXCEPT !.kind = kind, !.pc = "await", !.pre = Snapshot])

Resumes(p, kind, method) ==
    /\ h[p].kind = kind /\ h[p].pc = "await"
    /\ op[p].name = method /\ op[p].pc = "done" /\ op[p].ret = "ok"

Responds(p, status, fields) ==
    h' = [h EXCEPT ![p] = WithFields(fields, [h[p] EXCEPT !.pc = "sent", !.status = status])]

\* ghost: one more request; prev is the request the caller made before
Counted(p) ==
    ghost' = [ghost EXCEPT !.reqs = @ + 1, !.log = <<>>,
                           !.prev = [kind |-> h[p].kind, id |-> h[p].id,
                                     status |-> h[p].status]]

\* a store method threw: the async handler rejects and sends no response
HandlerThrows(p) ==
    /\ h[p].pc = "await"
    /\ op[p].pc = "done" /\ op[p].ret = "err"
    /\ h' = [h EXCEPT ![p].pc = "thrown"]
    /\ UNCHANGED <<books, initPc, disk, fl, op, clock, nextId, ghost>>

\* app.get('/api/books/:id'), lines 57-61
GetRecv(p, id) ==
    /\ Receives(p)
    /\ h' = [h EXCEPT ![p] = Request("GET", [id |-> id])]
    /\ op' = [op EXCEPT ![p] = StartOp("get", [id |-> id])]
    /\ Counted(p)
    /\ UNCHANGED <<books, initPc, disk, fl, clock, nextId>>

GetDone(p) ==
    /\ Resumes(p, "GET", "get")
    /\ IF op[p].found = NoBook
       THEN Responds(p, 404, <<>>)
       ELSE Responds(p, 200, [out |-> op[p].found])
    /\ UNCHANGED <<books, initPc, disk, fl, op, clock, nextId, ghost>>

\* app.post('/api/books'), lines 64-89
PostRecv(p, body) ==
    /\ Receives(p)
    /\ LET v == validateNewBook(PostIncoming(body, nextId, clock))
           r == Request("POST", [body |-> body, now |-> clock, book |-> v.data])
       IN IF v.ok
          THEN /\ h' = [h EXCEPT ![p] = r]
               /\ op' = [op EXCEPT ![p] =
                            StartOp("list", [limit |-> DupeScanLimit, offset |-> 0,
                                             sort |-> "title"])]
          ELSE /\ h' = [h EXCEPT ![p] = [r EXCEPT !.pc = "sent", !.status = 400]]
               /\ op' = op
    /\ nextId' = nextId + 1
    /\ Counted(p)
    /\ UNCHANGED <<books, initPc, disk, fl, clock>>

PostListed(p) ==
    /\ Resumes(p, "POST", "list")
    /\ LET dupe == DupeIndex(op[p].rows, normalizedIsbn(h[p].book)) IN
       IF dupe > 0
       THEN /\ Responds(p, 409, [existingId |-> op[p].rows[dupe]["id"]])
            /\ op' = op
       ELSE /\ op' = [op EXCEPT ![p] = StartOp("upsert", [book |-> h[p].book])]
            /\ h' = h
    /\ UNCHANGED <<books, initPc, disk, fl, clock, nextId, ghost>>

PostSaved(p) ==
    /\ Resumes(p, "POST", "upsert")
    /\ Responds(p, 201, [out |-> op[p].book])
    /\ UNCHANGED <<books, initPc, disk, fl, op, clock, nextId, ghost>>

\* app.put('/api/books/:id'), lines 92-109
PutRecv(p, id, body) ==
    /\ Receives(p)
    /\ h' = [h EXCEPT ![p] = Request("PUT", [id |-> id, body |-> body])]
    /\ op' = [op EXCEPT ![p] = StartOp("get", [id |-> id])]
    /\ Counted(p)
    /\ UNCHANGED <<books, initPc, disk, fl, clock, nextId>>

PutGot(p) ==
    /\ Resumes(p, "PUT", "get")
    /\ LET existing == op[p].found
           v == validateNewBook(PutReplacement(h[p].body, existing, clock))
       IN IF existing = NoBook
          THEN Responds(p, 404, <<>>) /\ op' = op
          ELSE IF ~v.ok
          THEN Responds(p, 400, [now |-> clock]) /\ op' = op
          ELSE /\ h' = [h EXCEPT ![p].now = clock, ![p].book = v.data]
               /\ op' = [op EXCEPT ![p] = StartOp("upsert", [book |-> v.data])]
    /\ UNCHANGED <<books, initPc, disk, fl, clock, nextId, ghost>>

PutSaved(p) ==
    /\ Resumes(p, "PUT", "upsert")
    /\ Responds(p, 200, [out |-> op[p].book])
    /\ UNCHANGED <<books, initPc, disk, fl, op, clock, nextId, ghost>>

\* app.patch('/api/books/:id'), lines 112-129
PatchRecv(p, id, body) ==
    /\ Receives(p)
    /\ h' = [h EXCEPT ![p] = Request("PATCH", [id |-> id, body |-> body])]
    /\ op' = [op EXCEPT ![p] = StartOp("get", [id |-> id])]
    /\ Counted(p)
    /\ UNCHANGED <<books, initPc, disk, fl, clock, nextId>>

PatchGot(p) ==
    /\ Resumes(p, "PATCH", "get")
    /\ LET existing == op[p].found
           v1 == validatePatchBook(h[p].body)
           v2 == validateNewBook(PatchMerged(existing, v1.data, clock))
       IN IF existing = NoBook
          THEN Responds(p, 404, <<>>) /\ op' = op
          ELSE IF ~v1.ok
          THEN Responds(p, 400, <<>>) /\ op' = op
          ELSE IF ~v2.ok
          THEN Responds(p, 400, [now |-> clock]) /\ op' = op
          ELSE /\ h' = [h EXCEPT ![p].now = clock, ![p].book = v2.data]
               /\ op' = [op EXCEPT ![p] = StartOp("upsert", [book |-> v2.data])]
    /\ UNCHANGED <<books, initPc, disk, fl, clock, nextId, ghost>>

PatchSaved(p) ==
    /\ Resumes(p, "PATCH", "upsert")
    /\ Responds(p, 200, [out |-> op[p].book])
    /\ UNCHANGED <<books, initPc, disk, fl, op, clock, nextId, ghost>>

\* app.delete('/api/books/:id'), lines 132-136
DeleteRecv(p, id) ==
    /\ Receives(p)
    /\ h' = [h EXCEPT ![p] = Request("DELETE", [id |-> id])]
    /\ op' = [op EXCEPT ![p] = StartOp("remove", [id |-> id])]
    /\ Counted(p)
    /\ UNCHANGED <<books, initPc, disk, fl, clock, nextId>>

DeleteDone(p) ==
    /\ Resumes(p, "DELETE", "remove")
    /\ Responds(p, IF op[p].removed THEN 204 ELSE 404, <<>>)
    /\ UNCHANGED <<books, initPc, disk, fl, op, clock, nextId, ghost>>

\* app.post('/api/import/json'), lines 152-175; body is [isArray, items]
ImportRecv(p, body) ==
    /\ Receives(p)
    /\ LET st == ImportPrepare([ok |-> TRUE, threw |-> FALSE, incoming |-> <<>>,
                                nextId |-> nextId], body.items, clock)
           r  == Request("IMPORT", [items |-> body.items, now |-> clock,
                                    body |-> [isArray |-> body.isArray]])
       IN IF ~body.isArray
          THEN /\ h' = [h EXCEPT ![p] = [r EXCEPT !.pc = "sent", !.status = 400]]
               /\ op' = op
               /\ nextId' = nextId
          ELSE IF st.threw
          THEN \* the async handler rejects and sends no response
               /\ h' = [h EXCEPT ![p] = [r EXCEPT !.pc = "thrown"]]
               /\ op' = op
               /\ nextId' = st.nextId
          ELSE IF ~st.ok
          THEN /\ h' = [h EXCEPT ![p] = [r EXCEPT !.pc = "sent", !.status = 400]]
               /\ op' = op
               /\ nextId' = st.nextId
          ELSE /\ h' = [h EXCEPT ![p] = r]
               /\ op' = [op EXCEPT ![p] = StartOp("importJson", [items |-> st.incoming])]
               /\ nextId' = st.nextId
    /\ Counted(p)
    /\ UNCHANGED <<books, initPc, disk, fl, clock>>

ImportDone(p) ==
    /\ Resumes(p, "IMPORT", "importJson")
    /\ Responds(p, 200, [created |-> op[p].created, updated |-> op[p].updated])
    /\ UNCHANGED <<books, initPc, disk, fl, op, clock, nextId, ghost>>

\* time passes
Tick ==
    /\ clock < MaxClock
    /\ clock' = clock + 1
    /\ UNCHANGED <<books, initPc, disk, fl, op, h, nextId, ghost>>

----------------------------------------------------------------------------
\* The API under one client that sends its requests one after the other.

I10a == <<"0","-","2","0","1","-","5","5","8","0","2","-","x">>

I10b == <<"0","2","0","1","5","5","8","0","2","X">>

Title(t) == "title" :> t

\* a timestamp a client made up: later than any instant of the server clock
ClientStamp == MaxClock + 5

SeedA == Stamped(WithIsbn13(Rec(1, 2), I13a), 0, 0)

SeedB == Stamped(Rec(2, 1) @@ ("rating" :> 3), 0, 1)

ApiSeedFiles == {Absent, Garbage, Stringify(<<SeedA, SeedB>>, 0)}

ReqIds == {1, 2, 3}

PostBodies ==
    {Title(2) @@ ("isbn13" :> I13b),
     Title(1) @@ ("isbn10" :> I10a),
     Title(1) @@ ("isbn10" :> I10b),
     Title(3) @@ SysFields(1, ClientStamp, ClientStamp) @@ ("shelf" :> 1),
     Title(1) @@ ("rating" :> 6)}

PutBodies ==
    {Title(3),
     Title(1) @@ ("isbn13" :> I13b) @@ ("id" :> 2) @@ ("createdAt" :> ClientStamp),
     Title(3) @@ SysFields(3, ClientStamp, ClientStamp) @@ ("shelf" :> 1),
     "rating" :> 4}

PatchBodies ==
    {NoBook,
     "rating" :> 6,
     "rating" :> 5,
     "title" :> 0,
     "isbn13" :> <<"9", "7", "8">>,
     "isbn13" :> I13b,
     Title(3) @@ ("createdAt" :> ClientStamp) @@ ("shelf" :> 1)}

ImportArrays ==
    LET i1 == Title(3) @@ ("isbn13" :> I13b) @@ ("id" :> 0)
        i2 == Title(3) @@ ("createdAt" :> ClientStamp)
        i3 == Title(3) @@ ("id" :> 1)
        i4 == Title(1) @@ ("rating" :> 6)
        i5 == Title(3) @@ ("id" :> 2) @@ ("isbn10" :> I10b)
        i6 == Title(2) @@ ("isbn10" :> I10a)
    IN {<<i1>>, <<i2>>, <<i3>>, <<i2, i4>>, <<i1, i2>>, <<i5>>, <<i6>>,
        <<i2, JsonNull>>}

ImportBodies ==
    {[isArray |-> TRUE, items |-> a] : a \in ImportArrays}
        \cup {[isArray |-> FALSE, items |-> <<>>]}

InitApi ==
    /\ books = <<>>
    /\ initPc = "start"
    /\ \E file \in ApiSeedFiles :
        /\ disk = [p \in {FilePath, TmpPath} |-> IF p = FilePath THEN file ELSE Absent]
        /\ ghost = StartGhost(file)
    /\ fl = <<>>
    /\ op = [p \in Procs |-> IdleOp]
    /\ clock = 1
    /\ h = [p \in Procs |-> IdleHandler]
    /\ nextId = 3

Client == CHOOSE p \in Procs : \A q \in Procs : p <= q

NextApi ==
    \/ StoreStep
    \/ Tick
    \/ HandlerThrows(Client)
    \/ \E id \in ReqIds : GetRecv(Client, id)
    \/ GetDone(Client)
    \/ \E body \in PostBodies : PostRecv(Client, body)
    \/ PostListed(Client)
    \/ PostSaved(Client)
    \/ \E id \in ReqIds, body \in PutBodies : PutRecv(Client, id, body)
    \/ PutGot(Client)
    \/ PutSaved(Client)
    \/ \E id \in ReqIds, body \in PatchBodies : PatchRecv(Client, id, body)
    \/ PatchGot(Client)
    \/ PatchSaved(Client)
    \/ \E id \in ReqIds : DeleteRecv(Client, id)
    \/ DeleteDone(Client)
    \/ \E body \in ImportBodies : ImportRecv(Client, body)
    \/ ImportDone(Client)

SpecApi == InitApi /\ [][NextApi]_vars

----------------------------------------------------------------------------
\* The API under two clients whose requests overlap, on the event loop of
\* Node: a continuation after an await of a settled promise is a microtask,
\* and the microtasks run before the next request or file-system completion
\* is handled; the reactions on this.ready run in the order the calls
\* reached "await this.ready".

\* caller p has a microtask to run
Runnable(p) ==
    \/ op[p].pc = "ready" /\ initPc \in {"ok", "failed"}
    \/ op[p].pc = "write" /\ Awaited(fl, op[p].ticket)
    \/ h[p].pc = "await" /\ op[p].pc = "done"

\* no microtask is left: the event loop takes the next request or completion
LoopIdle ==
    /\ \A p \in Procs : ~Runnable(p)
    /\ \A t \in DOMAIN fl : fl[t].st = "queued" => ~ChainAllows(fl, t)

\* p's reaction on this.ready is the first of those that wait
Turn(p) == \A q \in AtReady : op[p].at <= op[q].at

RaceBodies == {Title(3), "rating" :> 5}

NextRace ==
    \/ LoopIdle /\ InitRead
    \/ LoopIdle /\ InitWriteDone
    \/ LoopIdle /\ InitRename
    \/ \E t \in DOMAIN fl : StartFlush(t)
    \/ \E t \in DOMAIN fl : LoopIdle /\ WriteDone(t)
    \/ \E t \in DOMAIN fl : LoopIdle /\ Rename(t)
    \/ \E p \in Procs : Turn(p) /\ ReadyRejected(p)
    \/ \E p \in Procs : Turn(p) /\ GetBody(p)
    \/ \E p \in Procs : Turn(p) /\ UpsertBody(p)
    \/ \E p \in Procs : Turn(p) /\ RemoveBody(p)
    \/ \E p \in Procs : OpReturn(p)
    \/ \E p \in Procs : HandlerThrows(p)
    \/ \E p \in Procs, id \in ReqIds, body \in RaceBodies :
          LoopIdle /\ PutRecv(p, id, body)
    \/ \E p \in Procs : PutGot(p)
    \/ \E p \in Procs : PutSaved(p)
    \/ \E p \in Procs, id \in ReqIds, body \in RaceBodies :
          LoopIdle /\ PatchRecv(p, id, body)
    \/ \E p \in Procs : PatchGot(p)
    \/ \E p \in Procs : PatchSaved(p)
    \/ \E p \in Procs, id \in ReqIds : LoopIdle /\ DeleteRecv(p, id)
    \/ \E p \in Procs : DeleteDone(p)

SpecRace == InitApi /\ [][NextRace]_vars

----------------------------------------------------------------------------
\* Properties of the API (checked under SpecApi).

H == h[Client]

Sent(kind) == H.kind = kind /\ H.pc = "sent"

\* the body passes the full book schema once the server's fields are set
ValidPayload(body) == validateNewBook(PostIncoming(body, 0, 0)).ok

Ids(bs) == {bs[i]["id"] : i \in DOMAIN bs}

\* the stored records the create handler scans, in the order it scans them
Scanned(bs) == ListRows(bs, "title", DupeScanLimit, 0).items

Matching(rows, key) == {i \in DOMAIN rows : normalizedIsbn(rows[i]) = key}

IsbnTaken(bs, body) ==
    /\ normalizedIsbn(body) # <<>>
    /\ Matching(Scanned(bs), normalizedIsbn(body)) # {}

NothingChanged ==
    /\ books = H.pre.books
    /\ disk = H.pre.disk
    /\ Len(fl) = H.pre.queued

\* what GET /api/books/{id} answers in the current state
GetAnswer(id) ==
    LET item == FindBook(books, id) IN
    [status |-> IF item = NoBook THEN 404 ELSE 200, body |-> item]

DuplicateNamesEveryMatch ==
    \A i \in DOMAIN H.pre.books :
        (/\ Sent("POST") /\ ValidPayload(H.body)
         /\ normalizedIsbn(H.body) # <<>>
         /\ normalizedIsbn(H.pre.books[i]) = normalizedIsbn(H.body)) =>
            /\ H.status = 409
            /\ H.existingId = H.pre.books[i]["id"]
            /\ NothingChanged

\* C6, amended: a valid payload whose normalized ISBN a stored record has
\* gets 409 with the id of the first such record in title order (A's id
\* when A is the only one), and nothing is added, written or enqueued.
DuplicateIsbnRejected ==
    (Sent("POST") /\ ValidPayload(H.body) /\ IsbnTaken(H.pre.books, H.body)) =>
        LET rows  == Scanned(H.pre.books)
            found == Matching(rows, normalizedIsbn(H.body))
            first == CHOOSE i \in found : \A j \in found : i <= j
        IN /\ H.status = 409
           /\ H.existingId = rows[first]["id"]
           /\ NothingChanged

\* a 409 for an ISBN that differs from the stored one in hyphens or case
DuplicateIsbnRejectedWitness ==
    /\ Sent("POST") /\ H.status = 409
    /\ \E i \in DOMAIN books :
        /\ books[i]["id"] = H.existingId
        /\ RawIsbn(books[i]) # RawIsbn(H.body)
        /\ normalizedIsbn(books[i]) = normalizedIsbn(H.body)

\* C7: every stored record has updatedAt >= createdAt.
StampsMonotonic ==
    \A i \in DOMAIN books : books[i]["updatedAt"] >= books[i]["createdAt"]

\* C8: no two records of the collection have the same id.
UniqueIds ==
    \A i, j \in DOMAIN books : i # j => books[i]["id"] # books[j]["id"]

\* the collection importJson started from, and one turn e of its loop
Stored0 == ghost.log[1].pre

KeyStored(e) ==
    /\ isbnKey(e.item) # <<>>
    /\ \E i \in DOMAIN Stored0 : isbnKey(Stored0[i]) = isbnKey(e.item)

\* the turn e merged its item into the record at index i, in place
MergedAt(e, i) ==
    /\ Len(e.post) = Len(e.pre)
    /\ e.post[i]["id"] = Stored0[i]["id"]
    /\ \A f \in DOMAIN e.item \ {"id", "updatedAt"} :
          Has(e.post[i], f) /\ e.post[i][f] = e.item[f]
    /\ \A f \in DOMAIN e.pre[i] \ DOMAIN e.item : e.post[i][f] = e.pre[i][f]
    /\ e.post[i]["updatedAt"] >= H.now
    /\ e.post[i]["updatedAt"] <= clock
    /\ e.updated = 1
    /\ e.created = 0

\* C9 as stated: every stored record whose normalized ISBN the imported
\* book has is changed in place by it.
ImportMergesEveryMatch ==
    \A k \in DOMAIN ghost.log : \A i \in DOMAIN Stored0 :
        (/\ isbnKey(ghost.log[k].item) # <<>>
         /\ isbnKey(Stored0[i]) = isbnKey(ghost.log[k].item)) =>
            MergedAt(ghost.log[k], i)

\* C9, amended: an imported book whose normalized ISBN (isbn13, else
\* isbn10) stored records have is merged into exactly one record, in place:
\* the first record with the id of the last stored record with that ISBN
\* (that record itself when ids are unique).  The collection does not grow,
\* the record keeps its id, the item's other fields overwrite its fields,
\* its updatedAt is the time of the import, every other record is as
\* before, updated counts the item and created does not.
ImportMergesOne ==
    \A k \in DOMAIN ghost.log :
        LET e == ghost.log[k] IN
        KeyStored(e) =>
            LET last == LastWithKey(Stored0, isbnKey(e.item))
                tgt  == FindIndex(Stored0, Stored0[last]["id"])
            IN /\ MergedAt(e, tgt)
               /\ \A j \in DOMAIN e.pre : j # tgt => e.post[j] = e.pre[j]
               /\ (Sent("IMPORT") /\ H.status = 200) =>
                     /\ H.updated = Cardinality({n \in DOMAIN ghost.log :
                                                    ghost.log[n].updated = 1})
                     /\ H.created = Len(books) - Len(Stored0)

\* an import answered 200 after merging an item with another id into a
\* stored record whose ISBN is written differently
ImportMergesOneWitness ==
    /\ Sent("IMPORT") /\ H.status = 200 /\ H.updated >= 1
    /\ \E k \in DOMAIN ghost.log :
        LET e == ghost.log[k] IN
        /\ KeyStored(e)
        /\ e.idx > 0
        /\ e.item["id"] # e.post[e.idx]["id"]
        /\ RawIsbn(e.pre[e.idx]) # RawIsbn(e.item)
        /\ e.post # e.pre

\* a field of the body breaks a constraint of the schema
ViolatesConstraint(body) ==
    \E f \in DOMAIN body \cap PatchFields : ~FieldOk(f, body[f])

\* C10: a PATCH of a stored record whose body violates a field constraint
\* gets 400, and the collection, the files and the write queue are as before.
PatchRejectedUnchanged ==
    (/\ Sent("PATCH")
     /\ FindBook(H.pre.books, H.id) # NoBook
     /\ ViolatesConstraint(H.body)) =>
        /\ H.status = 400
        /\ NothingChanged

\* rating = 6 was sent for a stored record
PatchRejectedUnchangedWitness ==
    /\ Sent("PATCH") /\ H.status = 400
    /\ Has(H.body, "rating") /\ H.body["rating"] = 6
    /\ FindBook(books, H.id) # NoBook
    /\ ghost.reqs >= 2

\* the collection bs with the fields of upd set on its first record of that id
Touched(bs, id, upd) ==
    [bs EXCEPT ![FindIndex(bs, id)] = Spread(@, upd)]

\* C11: a PATCH with an empty body of a stored record gets 200, changes no
\* field of that record but updatedAt, which becomes the time of the request,
\* and changes no other record.
EmptyPatchTouches ==
    (/\ Sent("PATCH")
     /\ H.body = NoBook
     /\ FindBook(H.pre.books, H.id) # NoBook) =>
        /\ H.status = 200
        /\ H.now <= clock
        /\ books = Touched(H.pre.books, H.id, "updatedAt" :> H.now)
        /\ H.out = FindBook(books, H.id)

\* an empty PATCH of a record with a rating, at a later time than its last
\* update, next to another record
EmptyPatchTouchesWitness ==
    /\ Sent("PATCH") /\ H.body = NoBook /\ H.status = 200
    /\ Has(H.out, "rating")
    /\ H.out["updatedAt"] > FindBook(H.pre.books, H.id)["updatedAt"]
    /\ Len(books) >= 2

\* the collection a file holds (none when it is absent or unreadable)
FileBooks(file) == IF Parses(file) THEN file.books ELSE <<>>

\* the request left the collection, the write queue and the collection in
\* the live file as they were (_init may have created the file meanwhile)
NoEffect ==
    /\ StoredBooks = H.pre.books
    /\ Len(fl) = H.pre.queued
    /\ FileBooks(Live) = FileBooks(H.pre.disk[FilePath])

\* what PUT makes of the stored record old and the body: the body's schema
\* properties, with old's id and createdAt and the time of the request
Replaced(old, body, now) ==
    Spread(Strip(body, PatchFields), SysFields(old["id"], old["createdAt"], now))

AfterDelete ==
    ghost.prev = [kind |-> "DELETE", id |-> H.id, status |-> 204]

\* C13: for sequential requests, after a DELETE answered 204 the record is
\* gone, a GET of that id gets 404 and a second DELETE of it gets 404; a
\* DELETE answered 404 leaves the collection, the write queue and the
\* collection in the file as they were.
DeleteThenGone ==
    /\ (Sent("DELETE") /\ H.status = 204) =>
          /\ FindBook(H.pre.books, H.id) # NoBook
          /\ FindBook(books, H.id) = NoBook
    /\ (Sent("GET") /\ AfterDelete) => H.status = 404
    /\ (Sent("DELETE") /\ AfterDelete) => H.status = 404
    /\ (Sent("DELETE") /\ H.status = 404) => NoEffect

\* the second DELETE of a record was answered, another record being stored
DeleteThenGoneWitness ==
    /\ Sent("DELETE") /\ AfterDelete
    /\ H.status = 404
    /\ books # <<>>
    /\ Live.books = books

----------------------------------------------------------------------------
\* Properties of list (checked under SpecList).

\* caller p has the answer of a list call, and no mutation happened since
Listed(p) ==
    /\ op[p].name = "list" /\ op[p].pc = "done" /\ op[p].ret = "ok"
    /\ op[p].ver = ghost.mv

\* the filtered, sorted result of p's query on the collection
FullResult(p) ==
    SortRows(FilterTag(books, op[p].tag), SortField(op[p].sort), SortDir(op[p].sort))

\* p's page is the part of the full result from its offset on, limit long
\* or as long as the result goes
PageOf(p) ==
    LET full == FullResult(p)
        rest == IF Len(full) > op[p].offset THEN Len(full) - op[p].offset ELSE 0
    IN /\ Len(op[p].rows) = (IF rest < op[p].limit THEN rest ELSE op[p].limit)
       /\ \A k \in DOMAIN op[p].rows : op[p].rows[k] = full[op[p].offset + k]

\* C14: with no mutation in between and the same filter and sort, the page
\* at offset o and the page at offset o + L, both of size L, have the same
\* total, share no record, and one after the other are the 2L records of the
\* filtered, sorted result from o on (or all that remain); every page is the
\* slice of that result at its offset, so consecutive pages repeat and skip
\* nothing; total is the number of records that match, and the result holds
\* each matching record once, in the order of the sort.
PagesPartition ==
    /\ \A p \in Procs :
         Listed(p) =>
            LET full == FullResult(p) IN
            /\ PageOf(p)
            /\ op[p].total = Cardinality({i \in DOMAIN books :
                                 op[p].tag = "" \/ HasTag(books[i], op[p].tag)})
            /\ op[p].total = Len(full)
            /\ \A i, j \in DOMAIN full :
                  i < j => /\ full[i] # full[j]
                           /\ ~ComesBefore(full[j], full[i],
                                           SortField(op[p].sort), SortDir(op[p].sort))
            /\ Range(full) \subseteq Range(books)
    /\ \A p, q \in Procs :
         (/\ Listed(p) /\ Listed(q)
          /\ op[p].tag = op[q].tag /\ op[p].sort = op[q].sort
          /\ op[p].limit = op[q].limit
          /\ op[q].offset = op[p].offset + op[p].limit) =>
            LET full == FullResult(p)
                both == op[p].rows \o op[q].rows
            IN /\ op[p].total = op[q].total
               /\ Range(op[p].rows) \cap Range(op[q].rows) = {}
               /\ \A k \in DOMAIN both : both[k] = full[op[p].offset + k]
               /\ Len(both) = (IF Len(full) - op[p].offset < 2 * op[p].limit
                               THEN Len(full) - op[p].offset
                               ELSE 2 * op[p].limit)
                  \/ Len(full) < op[p].offset

\* two full pages of two, one after the other, of a filtered result with a
\* tie in the sort, after a record was removed
PagesPartitionWitness ==
    \E p, q \in Procs :
        /\ p < q
        /\ Listed(p) /\ Listed(q)
        /\ op[p].tag = "b" /\ op[q].tag = "b"
        /\ op[p].sort = "title" /\ op[q].sort = "title"
        /\ \A t \in DOMAIN fl : fl[t].st = "ok"
        /\ op[p].limit = 2 /\ op[q].limit = 2
        /\ op[p].offset = 0 /\ op[q].offset = 2
        /\ Len(op[p].rows) = 2 /\ Len(op[q].rows) = 1
        /\ op[p].total = 3 /\ op[p].total < Len(books)
        /\ op[p].rows[1]["title"] = op[p].rows[2]["title"]
        /\ ghost.mv > 0

----------------------------------------------------------------------------
\* Properties of startup and of failing flushes (checked under Spec).

\* C15: when _init found no file, the store is ready only once the file is
\* an empty document; when it found a file that is no store document
\* (unparsable, or without a books array), initialization has failed, no
\* call succeeds and the file stays as it was found.
StartupFailsLoudly ==
    /\ (initPc = "ok" /\ ghost.loaded.kind = "absent") => Live.kind = "doc"
    /\ (initPc # "start" /\ ghost.loaded.kind \in {"garbage", "nobooks"}) =>
          /\ initPc = "failed"
          /\ Live = ghost.loaded
          /\ \A p \in Procs : op[p].ret # "ok"

\* the calls that wait, or waited, for the promise of the t-th _enqueueWrite
Awaiting(t) == {p \in Procs : op[p].ticket = t /\ op[p].pc \in {"write", "done"}}

\* the t-th flush started and the disk failed its write or its rename
FlushFailed(t) ==
    /\ fl[t].st = "err"
    /\ \E i \in DOMAIN ghost.startLog : ghost.startLog[i] = t

\* C16: when the write or the rename of a flush has failed, the mutation
\* that awaits it is rejected and never reports success, and the flush is
\* not run again: its promise stays rejected and it started once.
FailedFlushRejects ==
    \A t \in DOMAIN fl :
        /\ Cardinality({i \in DOMAIN ghost.startLog : ghost.startLog[i] = t}) <= 1
        /\ FlushFailed(t) =>
              \A p \in Awaiting(t) :
                  /\ op[p].name \in {"upsert", "remove", "importJson"}
                  /\ op[p].ret # "ok"
                  /\ op[p].pc = "done" => op[p].ret = "err"

\* an upsert was rejected by the failure of its own flush, whose text never
\* reached the live file, and the record is still in memory
FailedFlushRejectsWitness ==
    \E t \in DOMAIN fl : \E p \in Awaiting(t) :
        /\ FlushFailed(t)
        /\ op[p].name = "upsert" /\ op[p].pc = "done" /\ op[p].ret = "err"
        /\ op[p].book \in Range(books)
        /\ op[p].book \notin Range(Live.books)

\* caller p is in get or list, past the call and before its answer
Reading(p) == op[p].name \in {"get", "list"} /\ op[p].pc = "ready"

\* caller p has the answer of a read, and no mutation happened since
HasRead(p, name) ==
    /\ op[p].name = name /\ op[p].pc = "done" /\ op[p].ret = "ok"
    /\ op[p].ver = ghost.mv

\* the flushes that have not completed
Unfinished == {t \in DOMAIN fl : fl[t].st \in {"queued", "writing", "written"}}

\* C17: once _init is over, a get or list that was called can complete at
\* once, whatever the flushes queued or in flight, and its answer is taken
\* from the collection in memory as it is then.
ReadsDontWait ==
    \A p \in Procs :
        /\ (Reading(p) /\ initPc = "ok") => ENABLED (GetBody(p) \/ ListBody(p))
        /\ HasRead(p, "get") => op[p].found = FindBook(books, op[p].id)
        /\ HasRead(p, "list") =>
              /\ op[p].total = Len(books)
              /\ op[p].rows = ListRows(FilterTag(books, op[p].tag), op[p].sort,
                                       op[p].limit, op[p].offset).items

\* a get answered with a record that no completed flush has written, while
\* the flush of the upsert that placed it is in flight
ReadsDontWaitWitness ==
    \E p, q \in Procs :
        /\ HasRead(p, "get") /\ op[p].found # NoBook
        /\ op[q].name = "upsert" /\ op[q].pc = "write"
        /\ op[q].book = op[p].found
        /\ op[q].ticket \in Unfinished \cap Executing(fl)
        /\ op[p].found \notin Range(Live.books)
        /\ \A t \in DOMAIN fl :
              fl[t].st = "ok" => op[p].found \notin Range(fl[t].text.books)

\* C18: a mutation submitted after a failed flush has finished (its promise
\* is chained on a rejected one), whose own flush the disk does not fail,
\* is flushed and returns successfully.
QueueRecovers ==
    \A p \in Procs :
        (/\ op[p].pc = "done" /\ op[p].ticket > 0
         /\ fl[op[p].ticket].prior = "err"
         /\ ~FlushFailed(op[p].ticket)) =>
            /\ op[p].ret = "ok"
            /\ fl[op[p].ticket].st = "ok"

----------------------------------------------------------------------------
\* Properties of overlapping requests (checked under SpecRace).

\* every request that was received has been answered, or has thrown
AllFinished == \A p \in Procs : h[p].pc \in {"idle", "sent", "thrown"}

\* C19: once a DELETE has been answered 204 and every request in flight has
\* finished, no record with its id is in the collection, whatever PUT or
\* PATCH of that id ran alongside.
DeleteWins ==
    \A p \in Procs :
        (/\ h[p].kind = "DELETE" /\ h[p].pc = "sent" /\ h[p].status = 204
         /\ AllFinished) =>
            FindBook(books, h[p].id) = NoBook

----------------------------------------------------------------------------
\* Properties of import validation (checked under SpecApi).

\* the item does not pass the full book schema
InvalidItem(raw) ==
    \/ raw = JsonNull
    \/ ~validateNewBook(ImportBook(raw, 0, 0)).ok

\* C20: an import whose body is no array, or has an item that fails the
\* full book schema, is answered 400 and leaves the collection, the write
\* queue and the file as they were, valid items before the invalid one
\* included.
ImportAllOrNothing ==
    (/\ H.kind = "IMPORT" /\ H.pc \in {"sent", "thrown"}
     /\ \/ ~H.body.isArray
        \/ \E i \in DOMAIN H.items : InvalidItem(H.items[i])) =>
        /\ H.pc = "sent"
        /\ H.status = 400
        /\ NoEffect

====
